---- MODULE Spec2Model ----
(***************************************************************************)
(* A model of the PDF text-replacement editor: PDFEditor                   *)
(* (pdf_edit/PDFEditor.py) and FontManager (pdf_edit/FontManager.py).      *)
(*                                                                         *)
(* Python strings are sequences of one-character strings, so that          *)
(* str.replace, str.find, str.lower, "in" and endswith are computed as     *)
(* Python computes them.  None is the record None.  The PDF and HTTP       *)
(* libraries are outside the repository: each call into them either        *)
(* returns what its documented contract says or raises, and the model      *)
(* takes both outcomes wherever the code has a handler for the exception.  *)
(***************************************************************************)
EXTENDS Integers, Sequences, FiniteSets, TLC

(***************************************************************************)
(* Bounds of the model.                                                    *)
(***************************************************************************)
\* longest page text, in glyphs, of a document on disk in Init
MaxPageLen == 3
\* longest old_text / new_text passed to edit_text
MaxTextLen == 2
\* most pages of a document on disk in Init
MaxPages == 2
\* most segments a source file name is made of
MaxSegs == 3
\* most spans (and lines, and blocks) of a structured text lookup
MaxSpans == 2
\* most font files in one font directory in Init
MaxFontFiles == 1
\* most calls of edit_text in one session
MaxEdits == 2

(***************************************************************************)
(* Python values.                                                          *)
(***************************************************************************)
None == [tag |-> "None"]
Raise == [tag |-> "raise"]

UPPER == <<"A","B","C","D","E","F","G","H","I","J","K","L","M",
           "N","O","P","Q","R","S","T","U","V","W","X","Y","Z">>
LOWER == <<"a","b","c","d","e","f","g","h","i","j","k","l","m",
           "n","o","p","q","r","s","t","u","v","w","x","y","z">>

lower_char(c) ==
    IF \E i \in 1..26 : UPPER[i] = c
    THEN LOWER[CHOOSE i \in 1..26 : UPPER[i] = c]
    ELSE c

\* str.lower()
str_lower(s) == [i \in 1..Len(s) |-> lower_char(s[i])]

\* s.startswith(p)
str_startswith(s, p) == Len(p) <= Len(s) /\ SubSeq(s, 1, Len(p)) = p

\* s.endswith(p)
str_endswith(s, p) ==
    Len(p) <= Len(s) /\ SubSeq(s, Len(s) - Len(p) + 1, Len(s)) = p

\* s.find(sub, start): the lowest 0-based index >= start where sub occurs, or -1
str_find(s, sub, start) ==
    LET hits == {i \in start..(Len(s) - Len(sub)) :
                    SubSeq(s, i + 1, i + Len(sub)) = sub}
    IN  IF hits = {} THEN -1
        ELSE CHOOSE i \in hits : \A j \in hits : i <= j

\* sub in s
str_in(sub, s) == str_find(s, sub, 0) >= 0

\* s[a:b] for 0 <= a
str_slice(s, a, b) == SubSeq(s, a + 1, b)

\* s.replace(old, new), old non-empty: every non-overlapping occurrence of
\* old, scanning from the left, is replaced
RECURSIVE str_replace(_, _, _)
str_replace(s, old, new) ==
    IF Len(s) < Len(old) THEN s
    ELSE IF SubSeq(s, 1, Len(old)) = old
         THEN new \o str_replace(SubSeq(s, Len(old) + 1, Len(s)), old, new)
         ELSE <<s[1]>> \o str_replace(Tail(s), old, new)

\* the sequences over S of length lo..hi
SeqsOf(S, lo, hi) == UNION {[1..n -> S] : n \in lo..hi}

RECURSIVE Flatten(_)
Flatten(ss) == IF ss = <<>> THEN <<>> ELSE Head(ss) \o Flatten(Tail(ss))

(***************************************************************************)
(* FontManager (pdf_edit/FontManager.py).                                  *)
(*                                                                         *)
(* The font environment is the platform, the set of defined environment    *)
(* variables, and the font directories on disk: fontfs maps each existing  *)
(* directory to its files in os.walk order.  A directory is a tuple of     *)
(* path components.                                                        *)
(***************************************************************************)
VARIABLES platform, environ, fontfs

ext_ttf == <<".", "t", "t", "f">>
ext_otf == <<".", "o", "t", "f">>
ext_woff == <<".", "w", "o", "f", "f">>
ext_woff2 == <<".", "w", "o", "f", "f", "2">>

font_extensions == <<ext_ttf, ext_otf, ext_woff, ext_woff2>>

\* os.path.expanduser("~/..."): the path unchanged when no home directory is
\* known; it never raises
expanduser(rest, env) ==
    IF "HOME" \in env THEN <<"$HOME">> \o rest ELSE <<"~">> \o rest

\* a KeyError propagates from os.environ[...] on win32
get_system_font_dirs(plat, env) ==
    IF plat = "win32"
    THEN IF "WINDIR" \notin env \/ "LOCALAPPDATA" \notin env
         THEN Raise
         ELSE [tag |-> "ok",
               val |-> << <<"%WINDIR%", "Fonts">>,
                          <<"%LOCALAPPDATA%", "Microsoft", "Windows", "Fonts">> >>]
    ELSE IF plat = "darwin"
    THEN [tag |-> "ok",
          val |-> << <<"/Library", "Fonts">>,
                     <<"/System", "Library", "Fonts">>,
                     expanduser(<<"Library", "Fonts">>, env) >>]
    ELSE [tag |-> "ok",
          val |-> << <<"/usr", "share", "fonts">>,
                     <<"/usr", "local", "share", "fonts">>,
                     expanduser(<<".fonts">>, env),
                     expanduser(<<".local", "share", "fonts">>, env) >>]

font_file_matches(font_name_lower, file) ==
    LET file_lower == str_lower(file)
    IN  \E k \in 1..Len(font_extensions) :
            str_in(font_name_lower, file_lower)
            /\ str_endswith(file_lower, font_extensions[k])

\* the first file, in walk order, whose lowered name contains the lowered,
\* space-stripped family name and ends with a font extension
_search_font_in_directory(fs, directory, font_name) ==
    LET font_name_lower == str_replace(str_lower(font_name), <<" ">>, <<>>)
        files == fs[directory]
        hits == {i \in 1..Len(files) : font_file_matches(font_name_lower, files[i])}
    IN  IF hits = {} THEN None
        ELSE LET first == CHOOSE i \in hits : \A j \in hits : i <= j
             IN  [tag |-> "path", dir |-> directory, file |-> files[first]]

RECURSIVE search_dirs(_, _, _)
search_dirs(fs, font_dirs, font_name) ==
    IF font_dirs = <<>> THEN None
    ELSE IF Head(font_dirs) \notin DOMAIN fs
         THEN search_dirs(fs, Tail(font_dirs), font_name)
         ELSE LET font_path == _search_font_in_directory(fs, Head(font_dirs), font_name)
              IN  IF font_path # None THEN font_path
                  ELSE search_dirs(fs, Tail(font_dirs), font_name)

find_font_in_system(plat, env, fs, font_name) ==
    LET font_dirs == get_system_font_dirs(plat, env)
    IN  IF font_dirs = Raise THEN Raise
        ELSE search_dirs(fs, font_dirs.val, font_name)

get_font_save_directory(plat, env) ==
    IF plat = "win32"
    THEN IF "LOCALAPPDATA" \notin env THEN Raise
         ELSE [tag |-> "ok", val |-> <<"%LOCALAPPDATA%", "Microsoft", "Windows", "Fonts">>]
    ELSE IF plat = "darwin"
    THEN [tag |-> "ok", val |-> expanduser(<<"Library", "Fonts">>, env)]
    ELSE [tag |-> "ok", val |-> expanduser(<<".local", "share", "fonts">>, env)]

get_font_extension(content_type) ==
    IF str_in(<<"w", "o", "f", "f", "2">>, content_type) THEN ext_woff2
    ELSE IF str_in(<<"w", "o", "f", "f">>, content_type) THEN ext_woff
    ELSE IF str_in(<<"o", "p", "e", "n", "t", "y", "p", "e">>, content_type) THEN ext_otf
    ELSE ext_ttf

_extract_font_url(css_content) ==
    LET url_start == str_find(css_content, <<"u", "r", "l", "(">>, 0) + 4
        url_end == str_find(css_content, <<")">>, url_start)
    IN  IF url_start < 4 \/ url_end < 0 THEN None
        ELSE [tag |-> "str", val |-> str_slice(css_content, url_start, url_end)]

\* os.makedirs(dir, exist_ok=True) followed by open(path, "wb") and write
write_font(fs, dir, file) ==
    IF dir \notin DOMAIN fs
    THEN [d \in DOMAIN fs \cup {dir} |-> IF d = dir THEN <<file>> ELSE fs[d]]
    ELSE IF \E i \in 1..Len(fs[dir]) : fs[dir][i] = file THEN fs
    ELSE [fs EXCEPT ![dir] = Append(@, file)]

make_dir(fs, dir) ==
    IF dir \in DOMAIN fs THEN fs
    ELSE [d \in DOMAIN fs \cup {dir} |-> IF d = dir THEN <<>> ELSE fs[d]]

\* net.font is the answer to the GET of the font URL (Raise, or a status
\* and a Content-Type); net.io says whether makedirs or open raises
_save_font_file(plat, env, fs, font_name, net) ==
    IF net.font = Raise THEN [res |-> None, fs |-> fs]
    ELSE IF net.font.status # 200 THEN [res |-> None, fs |-> fs]
    ELSE LET font_save_dir == get_font_save_directory(plat, env)
         IN  IF font_save_dir = Raise THEN [res |-> None, fs |-> fs]
             ELSE IF net.io = "makedirs_raises" THEN [res |-> None, fs |-> fs]
             ELSE LET ext == get_font_extension(net.font.ctype)
                      safe_font_name == str_replace(font_name, <<" ">>, <<"_">>)
                      file == safe_font_name \o ext
                  IN  IF net.io = "open_raises"
                      THEN [res |-> None, fs |-> make_dir(fs, font_save_dir.val)]
                      ELSE [res |-> [tag |-> "path", dir |-> font_save_dir.val,
                                     file |-> file],
                            fs |-> write_font(fs, font_save_dir.val, file)]

\* net.css is the answer to the GET of the style sheet (Raise, or a status
\* and a body)
download_google_font(plat, env, fs, font_name, net) ==
    IF net.css = Raise THEN [res |-> None, fs |-> fs]
    ELSE IF net.css.status # 200 THEN [res |-> None, fs |-> fs]
    ELSE LET font_url == _extract_font_url(net.css.text)
         IN  IF font_url = None \/ font_url.val = <<>>
             THEN [res |-> None, fs |-> fs]
             ELSE _save_font_file(plat, env, fs, font_name, net)

\* res is Raise when an exception leaves find_font
find_font(plat, env, fs, font_name, net) ==
    LET font_path == find_font_in_system(plat, env, fs, font_name)
    IN  IF font_path = Raise THEN [res |-> Raise, fs |-> fs]
        ELSE IF font_path # None THEN [res |-> font_path, fs |-> fs]
        ELSE download_google_font(plat, env, fs, font_name, net)

(***************************************************************************)
(* PDFEditor (pdf_edit/PDFEditor.py).                                      *)
(*                                                                         *)
(* A document is its pages; a page is its text in extraction order (a      *)
(* sequence of glyphs, SEP standing for white space, a line break or the   *)
(* gap a redaction leaves) and its pending redaction annotations.  A       *)
(* match is <<first glyph, length>>.  The disk maps each existing path to  *)
(* the document stored there.                                              *)
(***************************************************************************)
VARIABLES current_pdf, filename, page_number, verbose, fm_verbose, disk,
          pc, doc, doc_name, args, text_instances, idx, properties, last_info,
          cur, visited, n_redacted, n_inserted,
          ret, fail_at, save_target, n_saves, n_edits, ff

vars == <<platform, environ, fontfs,
          current_pdf, filename, page_number, verbose, fm_verbose, disk,
          pc, doc, doc_name, args, text_instances, idx, properties, last_info,
          cur, visited, n_redacted, n_inserted,
          ret, fail_at, save_target, n_saves, n_edits, ff>>

editor_vars == <<current_pdf, filename, page_number, verbose, fm_verbose>>
font_vars == <<platform, environ, fontfs>>
run_vars == <<pc, doc, doc_name, args, text_instances, idx, properties, last_info,
              cur, visited, n_redacted, n_inserted,
              ret, fail_at, save_target, n_saves, n_edits>>

SEP == "_"
Chars == {"a", "b"}
Glyphs == Chars \cup {SEP}

\* the Python None of a str-valued attribute
NoneStr == <<"None">>

\* what a write that raised half way leaves on disk
Truncated == [pages |-> <<>>]

helv == <<"h", "e", "l", "v">>
tiro == <<"t", "i", "r", "o">>
cour == <<"c", "o", "u", "r">>
symb == <<"s", "y", "m", "b">>
zadb == <<"z", "a", "d", "b">>

builtin_fonts == {helv, tiro, cour, symb, zadb}

default_size == 11
black == <<0, 0, 0>>

dot_pdf == <<".", "p", "d", "f">>
edited_pdf == <<"_", "e", "d", "i", "t", "e", "d", ".", "p", "d", "f">>

\* page.search_for(needle): the occurrences of needle in the page text,
\* from the left, each starting after the end of the one before
RECURSIVE search_from(_, _, _)
search_from(text, needle, start) ==
    LET i == str_find(text, needle, start)
    IN  IF i < 0 THEN <<>>
        ELSE << <<i + 1, Len(needle)>> >> \o search_from(text, needle, i + Len(needle))

\* a variant that stops at the first occurrence
search_for_first(page, needle) ==
    LET i == str_find(page.text, needle, 0)
    IN  IF i < 0 THEN <<>> ELSE << <<i + 1, Len(needle)>> >>

search_for(page, needle) == search_from(page.text, needle, 0)

\* page.add_redact_annot(rect, "")
add_redact_annot(page, inst) == [page EXCEPT !.annots = @ \cup {inst}]

\* page.apply_redactions(): the glyphs under every pending annotation go
apply_redactions(page) ==
    [text |-> [i \in 1..Len(page.text) |->
                  IF \E a \in page.annots : a[1] <= i /\ i < a[1] + a[2]
                  THEN SEP ELSE page.text[i]],
     annots |-> {}]

\* page.insert_text(position, text, ...): the new text is a run of its own,
\* after the page's other content
insert_text(page, text) == [page EXCEPT !.text = @ \o <<SEP>> \o text]

\* lib is what the two library calls do: "ok", "annot_raises" (nothing was
\* marked) or "apply_raises" (the mark stays pending)
redact_text(page, text_instance, lib) ==
    IF lib = "annot_raises" THEN [ret |-> FALSE, page |-> page]
    ELSE IF lib = "apply_raises"
         THEN [ret |-> FALSE, page |-> add_redact_annot(page, text_instance)]
         ELSE [ret |-> TRUE,
               page |-> apply_redactions(add_redact_annot(page, text_instance))]

\* last_info['blocks'][0]['lines'][0]['spans'][0], or "lookup_error" for the
\* IndexError or KeyError on the way
first_span(d) ==
    LET b == d.blocks[1]
    IN  IF "lines" \notin DOMAIN b THEN "lookup_error"
        ELSE IF b.lines = <<>> THEN "lookup_error"
        ELSE IF "spans" \notin DOMAIN b.lines[1] THEN "lookup_error"
        ELSE IF b.lines[1].spans = <<>> THEN "lookup_error"
        ELSE "found"

\* a variant whose lookup errors are not caught where they happen
get_text_properties_uncaught(font_info) ==
    IF font_info = Raise THEN None
    ELSE IF font_info.tag = "dict"
            /\ "blocks" \in DOMAIN font_info.d
            /\ font_info.d.blocks # <<>>
    THEN IF first_span(font_info.d) = "lookup_error" THEN None
         ELSE LET span == font_info.d.blocks[1].lines[1].spans[1]
              IN  [tag |-> "props",
                   font |-> IF "font" \in DOMAIN span THEN span.font ELSE helv,
                   size |-> IF "size" \in DOMAIN span THEN span.size ELSE default_size,
                   color |-> IF "color" \in DOMAIN span THEN span.color ELSE black]
    ELSE [tag |-> "props", font |-> helv, size |-> default_size, color |-> black]

\* font_info is what page.get_text("dict", clip=...) gave: Raise, a value
\* that is no dict, or a dict
get_text_properties(font_info) ==
    LET defaults == [tag |-> "props", font |-> helv, size |-> default_size,
                     color |-> black]
    IN  IF font_info = Raise THEN None
        ELSE IF font_info.tag = "dict"
                /\ "blocks" \in DOMAIN font_info.d
                /\ font_info.d.blocks # <<>>
        THEN IF first_span(font_info.d) = "lookup_error" THEN defaults
             ELSE LET span == font_info.d.blocks[1].lines[1].spans[1]
                  IN  [tag |-> "props",
                       font |-> IF "font" \in DOMAIN span THEN span.font
                                ELSE defaults.font,
                       size |-> IF "size" \in DOMAIN span THEN span.size
                                ELSE defaults.size,
                       color |-> IF "color" \in DOMAIN span THEN span.color
                                 ELSE defaults.color]
        ELSE defaults

\* lib.net answers find_font's requests, lib.load is whether
\* page.parent.load_font raises, lib.draw whether page.insert_text raises.
\* called: find_font was invoked; found: what it returned; use_font: the
\* font name given to page.insert_text, NoneStr when it was never reached
insert_new_text(plat, env, fs, page, text, props, lib) ==
    LET font_name == props.font
    IN  IF font_name \in builtin_fonts
        THEN [ret |-> lib.draw, called |-> FALSE, found |-> "not_called",
              loaded |-> "not_tried", use_font |-> font_name, fs |-> fs,
              page |-> IF lib.draw THEN insert_text(page, text) ELSE page]
        ELSE LET r == find_font(plat, env, fs, font_name, lib.net)
             IN  IF r.res = Raise
                 THEN [ret |-> FALSE, called |-> TRUE, found |-> "raise",
                       loaded |-> "not_tried", use_font |-> NoneStr,
                       fs |-> r.fs, page |-> page]
                 ELSE LET font_file == r.res
                          use_font == IF font_file # None /\ lib.load
                                      THEN font_name ELSE helv
                      IN  [ret |-> lib.draw, called |-> TRUE,
                           found |-> IF font_file # None THEN "path" ELSE "None",
                           loaded |-> IF font_file = None THEN "not_tried"
                                      ELSE IF lib.load THEN "ok" ELSE "raises",
                           use_font |-> use_font, fs |-> r.fs,
                           page |-> IF lib.draw THEN insert_text(page, text)
                                    ELSE page]

\* self.filename.replace('.pdf', '_edited.pdf')
output_path(name) == str_replace(name, dot_pdf, edited_pdf)

\* the point new text is drawn at, y in hundredths: the match's left, and
\* its top (0) plus font_size + font_size * 0.08
text_position(inst, font_size) ==
    [x |-> inst[1], y100 |-> 100 * font_size + 8 * font_size]

(***************************************************************************)
(* The operations.  U is the universe the inputs and the library's         *)
(* answers are drawn from.  edit_text runs in steps (search, then per      *)
(* match extract, redact, insert, then save); the editor is single         *)
(* threaded, so no other operation starts while pc is not "idle".          *)
(*                                                                         *)
(* Locals of edit_text: doc, doc_name (doc.name), args, text_instances,    *)
(* idx (the loop's position), properties, last_info (what the lookup of    *)
(* get_text_properties gave, kept until the next step of the run).  They   *)
(* end with the call.  Observations of                                     *)
(* the run, kept after it: ret (what edit_text returned), fail_at (the     *)
(* call whose exception reached edit_text's handler), save_target (the     *)
(* path given to doc.save), n_saves, visited (the matches the loop took    *)
(* up, in order), cur (what happened to the match in hand), n_redacted,    *)
(* n_inserted, n_edits.                                                    *)
(***************************************************************************)
put(d, path, content) ==
    [n \in DOMAIN d \cup {path} |-> IF n = path THEN content ELSE d[n]]

set_verbose(v) ==
    /\ pc = "idle"
    /\ verbose' = v
    /\ fm_verbose' = v
    /\ UNCHANGED <<current_pdf, filename, page_number, disk, ff>>
    /\ UNCHANGED font_vars
    /\ UNCHANGED run_vars

\* lib_ok: PyPDF2.PdfReader does not raise on a readable file
open_pdf(pdf_path, lib_ok) ==
    /\ pc = "idle"
    /\ IF pdf_path \in DOMAIN disk /\ disk[pdf_path] # Truncated /\ lib_ok
       THEN /\ current_pdf' = disk[pdf_path]
            /\ filename' = pdf_path
            /\ page_number' = 0
       ELSE UNCHANGED <<current_pdf, filename, page_number>>
    /\ UNCHANGED <<verbose, fm_verbose, disk, ff>>
    /\ UNCHANGED font_vars
    /\ UNCHANGED run_vars

\* lib: "ok", "open_raises" (nothing written) or "write_raises"
save_pdf(path, lib) ==
    /\ pc = "idle"
    /\ IF current_pdf = None \/ lib = "open_raises"
       THEN UNCHANGED disk
       ELSE IF lib = "write_raises"
            THEN disk' = put(disk, path, Truncated)
            ELSE disk' = put(disk, path, current_pdf)
    /\ UNCHANGED <<ff>>
    /\ UNCHANGED editor_vars
    /\ UNCHANGED font_vars
    /\ UNCHANGED run_vars

\* a variant that goes on from the output of the edit before, when there is
\* one
opened_document_of_last_edit(d, name) ==
    IF output_path(name) \in DOMAIN d /\ d[output_path(name)] # Truncated
    THEN d[output_path(name)] ELSE d[name]

\* fitz.open(self.filename): the document stored under the editor's file name
opened_document(d, name) == d[name]

\* the call of edit_text's try block that raises before the loop, or "none".
\* fitz.open(None) gives an empty document, whose page lookup raises.
\* lib: "ok", "open_raises" or "search_raises"
begin_failure(d, name, pn, lib) ==
    IF name = NoneStr THEN "page"
    ELSE IF name \notin DOMAIN d \/ d[name] = Truncated \/ lib = "open_raises"
         THEN "open"
    ELSE IF pn \notin 0..(Len(opened_document(d, name).pages) - 1) THEN "page"
    ELSE IF lib = "search_raises" THEN "search"
    ELSE "none"

\* a variant in which a lookup without properties reaches edit_text's handler
after_extract_aborting(props) == IF props = None THEN "raise" ELSE "redact"

\* if not properties: continue
after_extract(props) == IF props = None THEN "continue" ELSE "redact"

\* a variant that goes on to the insertion whatever redact_text returned
after_redact_ignored(ok) == "insert"

\* if not self.redact_text(page, inst): continue
after_redact(ok) == IF ~ok THEN "continue" ELSE "insert"

\* a variant in which a failed insertion reaches edit_text's handler
after_insert_aborting(ok) == IF ~ok THEN "raise" ELSE "continue"

\* if not self.insert_new_text(...): continue, the last statement of the loop
after_insert(ok) == IF ~ok THEN "continue" ELSE "continue"

\* return True, or the handler's return False
edit_return(value, where) ==
    /\ pc' = "idle"
    /\ ret' = value
    /\ fail_at' = where

\* a variant whose continue leaves the loop for the save at once
goto_leaving_loop(ctl, where) ==
    IF ctl = "raise"
    THEN /\ edit_return("False", where)
         /\ idx' = idx
    ELSE /\ UNCHANGED <<ret, fail_at>>
         /\ idx' = idx
         /\ pc' = IF ctl = "continue" THEN "save" ELSE ctl

\* where the run goes next: "continue" is the loop's next match, or the save
\* after the last; "raise" is an exception reaching edit_text's handler
goto(ctl, where) ==
    IF ctl = "raise"
    THEN /\ edit_return("False", where)
         /\ idx' = idx
    ELSE /\ UNCHANGED <<ret, fail_at>>
         /\ IF ctl = "continue"
            THEN /\ idx' = idx + 1
                 /\ pc' = IF idx < Len(text_instances) THEN "extract" ELSE "save"
            ELSE /\ idx' = idx
                 /\ pc' = ctl

\* fitz.open(self.filename), doc[page_number], page.search_for(old_text)
edit_text_begin(pn, old_text, new_text, lib) ==
    LET fail == begin_failure(disk, filename, pn, lib)
        found == search_for(opened_document(disk, filename).pages[pn + 1], old_text)
    IN  /\ pc = "idle"
        /\ n_edits' = n_edits + 1
        /\ args' = [page_number |-> pn, old_text |-> old_text, new_text |-> new_text]
        /\ properties' = None
        /\ last_info' = None
        /\ cur' = None
        /\ visited' = <<>>
        /\ n_redacted' = 0
        /\ n_inserted' = 0
        /\ save_target' = NoneStr
        /\ n_saves' = 0
        /\ doc_name' = filename
        /\ IF fail # "none"
           THEN /\ edit_return("False", fail)
                /\ doc' = None
                /\ text_instances' = <<>>
                /\ idx' = 0
           ELSE /\ ret' = "running"
                /\ fail_at' = "none"
                /\ doc' = opened_document(disk, filename)
                /\ text_instances' = found
                /\ idx' = 1
                /\ pc' = IF found = <<>> THEN "save" ELSE "extract"
        /\ UNCHANGED <<disk, ff>>
        /\ UNCHANGED editor_vars
        /\ UNCHANGED font_vars

\* what is known of a match before any of its steps ran
fresh_match(i) ==
    [inst |-> i, extracted |-> "pending", redact |-> "skipped", called |-> FALSE,
     found |-> "not_called", loaded |-> "not_tried", font |-> NoneStr,
     use_font |-> NoneStr, position |-> None, insert |-> "skipped"]

\* properties = self.get_text_properties(page, inst)
edit_text_extract(info) ==
    LET props == get_text_properties(info)
    IN  /\ pc = "extract"
        /\ last_info' = info
        /\ properties' = props
        /\ visited' = Append(visited, idx)
        /\ cur' = [fresh_match(idx) EXCEPT
                      !.extracted = IF props = None THEN "None" ELSE "props",
                      !.font = IF props = None THEN NoneStr ELSE props.font]
        /\ goto(after_extract(props), "extract")
        /\ UNCHANGED <<doc, doc_name, args, text_instances, n_redacted, n_inserted,
                       save_target, n_saves, n_edits>>
        /\ UNCHANGED <<disk, ff>>
        /\ UNCHANGED editor_vars
        /\ UNCHANGED font_vars

\* self.redact_text(page, inst)
edit_text_redact(lib) ==
    LET pno == args.page_number + 1
        r == redact_text(doc.pages[pno], text_instances[idx], lib)
    IN  /\ pc = "redact"
        /\ doc' = [doc EXCEPT !.pages[pno] = r.page]
        /\ cur' = [cur EXCEPT !.redact = IF r.ret THEN "True" ELSE "False"]
        /\ n_redacted' = IF r.ret THEN n_redacted + 1 ELSE n_redacted
        /\ last_info' = None
        /\ goto(after_redact(r.ret), "redact")
        /\ UNCHANGED <<doc_name, args, text_instances, properties, visited,
                       n_inserted, save_target, n_saves, n_edits>>
        /\ UNCHANGED <<disk, ff>>
        /\ UNCHANGED editor_vars
        /\ UNCHANGED font_vars

\* the position, then self.insert_new_text(page, text_position, new_text,
\* properties)
edit_text_insert(lib) ==
    LET pno == args.page_number + 1
        position == text_position(text_instances[idx], properties.size)
        r == insert_new_text(platform, environ, fontfs, doc.pages[pno],
                             args.new_text, properties, lib)
    IN  /\ pc = "insert"
        /\ doc' = [doc EXCEPT !.pages[pno] = r.page]
        /\ fontfs' = r.fs
        /\ cur' = [cur EXCEPT !.called = r.called, !.found = r.found,
                              !.loaded = r.loaded, !.use_font = r.use_font,
                              !.position = position,
                              !.insert = IF r.ret THEN "True" ELSE "False"]
        /\ n_inserted' = IF r.ret THEN n_inserted + 1 ELSE n_inserted
        /\ goto(after_insert(r.ret), "insert")
        /\ UNCHANGED <<doc_name, args, text_instances, properties, last_info, visited,
                       n_redacted, save_target, n_saves, n_edits>>
        /\ UNCHANGED <<disk, ff, platform, environ>>
        /\ UNCHANGED editor_vars

\* doc.save(path): "saved", "raises" (nothing written) or "write_raises" (a
\* truncated file is left).  doc.save refuses the path the document was
\* opened from (a save to the original must be incremental).
\* lib: "ok", "raises" or "write_raises"
doc_save(name, path, lib) ==
    IF path = name THEN "raises"
    ELSE IF lib = "ok" THEN "saved"
    ELSE lib

\* output_path = ...; doc.save(output_path); return True
edit_text_save(lib) ==
    LET target == output_path(filename)
        outcome == doc_save(doc_name, target, lib)
    IN  /\ pc = "save"
        /\ save_target' = target
        /\ disk' = IF outcome = "saved" THEN put(disk, target, doc)
                   ELSE IF outcome = "write_raises" THEN put(disk, target, Truncated)
                   ELSE disk
        /\ n_saves' = IF outcome = "saved" THEN n_saves + 1 ELSE n_saves
        /\ IF outcome = "saved" THEN edit_return("True", "none")
           ELSE edit_return("False", "save")
        /\ doc' = None
        /\ properties' = None
        /\ last_info' = None
        /\ UNCHANGED <<doc_name, args, text_instances, idx, cur, visited,
                       n_redacted, n_inserted, n_edits, ff>>
        /\ UNCHANGED editor_vars
        /\ UNCHANGED font_vars

\* FontManager.find_font called on its own
find_font_call(font_name, net) ==
    LET r == find_font(platform, environ, fontfs, font_name, net)
    IN  /\ pc = "idle"
        /\ ff' = [font_name |-> font_name, res |-> r.res]
        /\ fontfs' = r.fs
        /\ UNCHANGED <<platform, environ, disk>>
        /\ UNCHANGED editor_vars
        /\ UNCHANGED run_vars

(***************************************************************************)
(* The inputs and the library's answers.                                   *)
(***************************************************************************)
seg_a == <<"a">>
dot_PDF == <<".", "P", "D", "F">>
a_pdf == seg_a \o dot_pdf
missing_pdf == <<"m">> \o dot_pdf
out_pdf == <<"o">> \o dot_pdf

\* file names: up to MaxSegs of the segments "a", ".pdf", ".PDF"
FileNames == {Flatten(ss) : ss \in SeqsOf({seg_a, dot_pdf, dot_PDF}, 1, MaxSegs)}

PageTexts == SeqsOf(Glyphs, 0, MaxPageLen)
SamplePage == <<"a", SEP, "a">>
SampleTexts == {SamplePage, <<"b">>}

mk_page(t) == [text |-> t, annots |-> {}]

\* documents of 1..MaxPages pages: the first page from texts, the others the
\* sample page
Docs(texts) ==
    {[pages |-> [i \in 1..n |-> IF i = 1 THEN mk_page(t) ELSE mk_page(SamplePage)]] :
        t \in texts, n \in 1..MaxPages}

Disks(names, texts) == UNION {{[n \in {name} |-> d] : d \in Docs(texts)} : name \in names}

\* old texts, up to the renaming of the two glyphs
Olds == {o \in SeqsOf(Chars, 1, MaxTextLen) : o[1] = "a"}
News == SeqsOf(Chars, 0, MaxTextLen)

Ro == <<"R", "o">>
O_S == <<"O", " ", "S">>
red == <<1, 0, 0>>
blue == <<0, 0, 1>>

mk_span(K, f, s, c) ==
    [key \in K \cup {"text"} |->
        CASE key = "font" -> f
          [] key = "size" -> s
          [] key = "color" -> c
          [] OTHER -> "x"]

Spans(fonts) ==
    {mk_span(K, f, s, c) : K \in SUBSET {"font", "size", "color"},
                           f \in fonts, s \in {11, 12}, c \in {black, red}}

other_span == [text |-> "y", font |-> tiro, size |-> 99, color |-> blue]
line_no_spans == [bbox |-> "x"]
mk_line(sl) == [bbox |-> "x", spans |-> sl]
block_no_lines == [type |-> 1]
mk_block(ll) == [type |-> 0, lines |-> ll]
mk_dict(bl) == [tag |-> "dict", d |-> [width |-> 1, blocks |-> bl]]
dict_no_blocks == [tag |-> "dict", d |-> [width |-> 1]]
not_a_dict == [tag |-> "notdict"]

SpanLists(fonts) ==
    {<<>>} \cup {<<s>> \o [i \in 1..m |-> other_span] :
                    s \in Spans(fonts), m \in 0..(MaxSpans - 1)}

LineLists(fonts) ==
    {<<>>, <<line_no_spans>>}
    \cup {<<mk_line(sl)>> \o rest :
            sl \in SpanLists(fonts), rest \in {<<>>, <<mk_line(<<other_span>>)>>}}

BlockLists(fonts) ==
    {<<>>, <<block_no_lines>>}
    \cup {<<mk_block(ll)>> \o rest :
            ll \in LineLists(fonts),
            rest \in {<<>>, <<mk_block(<<mk_line(<<other_span>>)>>)>>}}

\* every shape page.get_text("dict", clip=...) can answer with
FontInfos(fonts) ==
    {Raise, not_a_dict, dict_no_blocks} \cup {mk_dict(bl) : bl \in BlockLists(fonts)}

full_info(f) ==
    mk_dict(<<mk_block(<<mk_line(<<mk_span({"font", "size", "color"}, f, 12, red)>>)>>)>>)

SampleInfos == {Raise, dict_no_blocks, full_info(cour), full_info(Ro)}

css_url == <<"u", "r", "l", "(", "h", ")">>
css_none == <<"x">>
css_open == <<"u", "r", "l", "(", "h">>
CssBodies == {css_url, css_none, css_open}
ct_woff2 == <<"w", "o", "f", "f", "2">>
ct_ttf == <<"t", "t", "f">>
ContentTypes == {ct_woff2, ct_ttf}

\* the answers to the two requests: the request raises, or a status with a
\* body (a Content-Type)
CssAnswers ==
    {Raise, [tag |-> "resp", status |-> 404, text |-> css_none]}
    \cup [tag : {"resp"}, status : {200}, text : CssBodies]
FontAnswers ==
    {Raise, [tag |-> "resp", status |-> 404, ctype |-> ct_ttf]}
    \cup [tag : {"resp"}, status : {200}, ctype : ContentTypes]
Nets == [css : CssAnswers, font : FontAnswers,
         io : {"ok", "makedirs_raises", "open_raises"}]

net_down == [css |-> Raise, font |-> Raise, io |-> "ok"]
net_ok == [css |-> [tag |-> "resp", status |-> 200, text |-> css_url],
           font |-> [tag |-> "resp", status |-> 200, ctype |-> ct_ttf],
           io |-> "ok"]
SampleNets == {net_down, net_ok}

InsertLibs(nets) == [net : nets, load : BOOLEAN, draw : BOOLEAN]

\* the font directories of a platform, as named whatever the environment
platform_dirs(plat, env) ==
    IF plat = "win32"
    THEN {<<"%WINDIR%", "Fonts">>,
          <<"%LOCALAPPDATA%", "Microsoft", "Windows", "Fonts">>}
    ELSE {get_system_font_dirs(plat, env).val[i] :
             i \in 1..Len(get_system_font_dirs(plat, env).val)}

ro_ttf == <<"r", "o">> \o ext_ttf
os_otf == <<"o", "s">> \o ext_otf
FontFilePool == {ro_ttf, os_otf}

\* font disks: nothing, or one directory of the platform with up to
\* MaxFontFiles files
FontDisks(plat, env) ==
    {<<>>} \cup {[d \in {dir} |-> fl] :
                    dir \in platform_dirs(plat, env),
                    fl \in SeqsOf(FontFilePool, 0, MaxFontFiles)}

\* the environments of a platform: the variables its code paths read
Envs(plat) ==
    IF plat = "win32" THEN SUBSET {"WINDIR", "LOCALAPPDATA"} ELSE SUBSET {"HOME"}

FontEnvs(plats) ==
    UNION {UNION {{<<p, e, fs>> : fs \in FontDisks(p, e)} : e \in Envs(p)} : p \in plats}
SampleFontEnvs ==
    {<<"linux", {"HOME"}, <<>>>>,
     <<"linux", {"HOME"}, [d \in {<<"/usr", "share", "fonts">>} |-> <<ro_ttf>>]>>,
     <<"win32", {}, <<>>>>}

(***************************************************************************)
(* Init and Next over a universe.                                          *)
(***************************************************************************)
InitOf(disks, fontenvs) ==
    /\ disk \in disks
    /\ \E e \in fontenvs : platform = e[1] /\ environ = e[2] /\ fontfs = e[3]
    /\ current_pdf = None
    /\ filename = NoneStr
    /\ page_number = 0
    /\ verbose = FALSE
    /\ fm_verbose = FALSE
    /\ pc = "idle"
    /\ doc = None
    /\ doc_name = NoneStr
    /\ last_info = None
    /\ n_edits = 0
    /\ args = None
    /\ text_instances = <<>>
    /\ idx = 0
    /\ properties = None
    /\ cur = None
    /\ visited = <<>>
    /\ n_redacted = 0
    /\ n_inserted = 0
    /\ ret = "none"
    /\ fail_at = "none"
    /\ save_target = NoneStr
    /\ n_saves = 0
    /\ ff = None

\* the paths open_pdf is given: the source files on disk, and one that is
\* missing
OpenPaths == (DOMAIN disk \cap FileNames) \cup {missing_pdf}

\* the paths save_pdf is given
SavePaths == {out_pdf} \cup {n \in {filename, output_path(filename)} : filename # NoneStr}

\* a session that opens documents and edits them
NextEdit(U) ==
    \/ \E path \in OpenPaths, ok \in BOOLEAN : open_pdf(path, ok)
    \/ \E pn \in 0..MaxPages, o \in U.olds, n \in U.news,
          lib \in {"ok", "open_raises", "search_raises"} :
          n_edits < U.max_edits /\ edit_text_begin(pn, o, n, lib)
    \/ \E fi \in U.font_infos : edit_text_extract(fi)
    \/ \E lib \in {"ok", "annot_raises", "apply_raises"} : edit_text_redact(lib)
    \/ \E lib \in InsertLibs(U.nets) : edit_text_insert(lib)
    \/ \E lib \in {"ok", "raises", "write_raises"} : edit_text_save(lib)

\* every operation of the editor
NextOf(U) ==
    \/ NextEdit(U)
    \/ \E v \in BOOLEAN : set_verbose(v)
    \/ \E path \in SavePaths, lib \in {"ok", "open_raises", "write_raises"} :
          save_pdf(path, lib)

SampleU == [olds |-> {<<"a">>}, news |-> {<<"b">>},
            font_infos |-> SampleInfos, nets |-> SampleNets,
            max_edits |-> MaxEdits]

Init == InitOf(Disks({a_pdf}, {<<"b">>}), SampleFontEnvs)
Next == NextOf(SampleU)
Spec == Init /\ [][Next]_vars

(***************************************************************************)
(* Further specifications: the same editor over other universes, and the   *)
(* font manager on its own.                                                *)
(***************************************************************************)
linux_plain == <<"linux", {"HOME"}, <<>>>>
PlainU == [olds |-> {<<"a">>}, news |-> {<<"b">>},
           font_infos |-> {dict_no_blocks}, nets |-> {net_down}, max_edits |-> 1]

\* every file name, one document
two_pages == [pages |-> <<mk_page(<<"b">>), mk_page(SamplePage)>>]
InitPath == InitOf({[n \in {name} |-> two_pages] : name \in FileNames}, {linux_plain})
SpecPath == InitPath /\ [][NextEdit(PlainU)]_vars

\* every page text, every old and new text
TextU == [olds |-> Olds, news |-> News,
          font_infos |-> {dict_no_blocks}, nets |-> {net_down}, max_edits |-> 1]
InitText == InitOf(Disks({a_pdf}, PageTexts), {linux_plain})
SpecText == InitText /\ [][NextEdit(TextU)]_vars

\* every shape of the structured text lookup
PropsU == [olds |-> {<<"a">>}, news |-> {<<"b">>},
           font_infos |-> FontInfos({cour, Ro}), nets |-> {net_down}, max_edits |-> 1]
InitProps == InitOf({[n \in {a_pdf} |-> two_pages]}, {linux_plain})
SpecProps == InitProps /\ [][NextEdit(PropsU)]_vars

\* every platform, environment and font disk; every answer of the network
InitFont ==
    InitOf({[n \in {a_pdf} |-> two_pages]},
           FontEnvs({"win32", "darwin", "linux"}))
NextFont == \E name \in {Ro, O_S}, net \in Nets : find_font_call(name, net)
SpecFont == InitFont /\ [][NextFont]_vars

(***************************************************************************)
(* The properties.                                                         *)
(***************************************************************************)
finished == pc = "idle" /\ ret \in {"True", "False"}
in_loop == pc \in {"extract", "redact", "insert"}
AllVisited == visited = [i \in 1..Len(text_instances) |-> i]

\* C2: within edit_text, insert_new_text is reached for a match only after
\* redact_text returned True for that same match; a match whose redaction
\* returned False never gets text inserted.
C2_InsertOnlyAfterRedact ==
    /\ pc = "insert" => cur # None /\ cur.redact = "True"
    /\ cur # None /\ cur.insert # "skipped" => cur.redact = "True"
    /\ cur # None /\ cur.redact = "False" => cur.insert = "skipped" /\ ~cur.called
    /\ n_inserted <= n_redacted

\* a finished run whose first match was redacted and rewritten and whose
\* second match failed to redact
C2_Witness ==
    /\ finished /\ ret = "True"
    /\ visited = <<1, 2>>
    /\ cur.redact = "False" /\ cur.insert = "skipped"
    /\ n_redacted = 1 /\ n_inserted = 1

\* C3: a per-match failure (no properties, redact_text False,
\* insert_new_text False) only moves the loop to the next match: the matches
\* are taken up in order, none is left out before the save, no such failure
\* reaches edit_text's handler, and the run goes on to doc.save.
C3_SkipToNextMatch ==
    /\ visited = [i \in 1..Len(visited) |-> i]
    /\ Len(visited) <= Len(text_instances)
    /\ in_loop => ret = "running" /\ idx = Len(visited) + (IF pc = "extract" THEN 1 ELSE 0)
    /\ pc = "save" => AllVisited /\ ret = "running"
    /\ fail_at \notin {"extract", "redact", "insert"}
    /\ finished /\ fail_at \in {"none", "save"} => AllVisited /\ save_target # NoneStr

\* a saved run of two matches: the first was redacted and its insertion
\* failed, the second had no properties
C3_Witness ==
    /\ finished /\ ret = "True" /\ n_saves = 1
    /\ visited = <<1, 2>>
    /\ n_redacted = 1 /\ n_inserted = 0
    /\ cur.extracted = "None"

\* the run got past the search: the document opened, the page exists, the
\* search returned
past_search == fail_at \notin {"open", "page", "search"}

\* C7 as stated: a run that returns True saved exactly once, as its last step
\* after the last match; a run that returns False did not save; a page with
\* zero matches returns True with that one save.
C7_SavedOnceOrNot ==
    /\ finished /\ ret = "True" => n_saves = 1 /\ AllVisited
    /\ finished /\ ret = "False" => n_saves = 0
    /\ finished /\ past_search /\ text_instances = <<>> => ret = "True" /\ n_saves = 1

\* C7 amended: a run that returns True saved exactly once, as its last step
\* after the last match; a run that returns False did not save; a page with
\* zero matches still goes to doc.save, and returns True with that one save
\* unless doc.save itself raises, when it returns False.
C7_SavedOnceUnlessSaveRaises ==
    /\ n_saves <= 1
    /\ ~finished => n_saves = 0
    /\ finished /\ ret = "True" => n_saves = 1 /\ AllVisited /\ fail_at = "none"
    /\ finished /\ ret = "False" => n_saves = 0
    /\ finished /\ past_search /\ text_instances = <<>> =>
          /\ save_target # NoneStr
          /\ \/ ret = "True" /\ n_saves = 1
             \/ ret = "False" /\ fail_at = "save"

\* a page with zero matches, saved
C7_Witness ==
    /\ finished /\ ret = "True" /\ n_saves = 1
    /\ text_instances = <<>> /\ visited = <<>>
    /\ save_target \in DOMAIN disk

\* C9 as stated: with a file opened in the editor, edit_text returns failure
\* only when the initial open of the document fails.
C9_AbortOnlyOnOpen ==
    finished /\ ret = "False" /\ doc_name # NoneStr => fail_at = "open"

\* C9 amended: edit_text returns False, without having saved, exactly when
\* fitz.open, the page lookup, the text search or the final doc.save raises;
\* a failure of the extraction, the redaction, the font lookup or the
\* insertion stays with its match; edit_text always returns True or False.
C9_AbortsOutsideLoopOnly ==
    /\ finished => (ret = "False" <=> fail_at \in {"open", "page", "search", "save"})
    /\ finished /\ ret = "False" => n_saves = 0
    /\ fail_at \in {"none", "open", "page", "search", "save"}
    /\ ret \in {"none", "running", "True", "False"}
    /\ pc = "idle" /\ n_edits > 0 => finished
    /\ finished /\ fail_at \in {"open", "page", "search"} =>
          visited = <<>> /\ save_target = NoneStr

\* a run whose font lookup raised for one match and that went on to save
C9_Witness ==
    /\ finished /\ ret = "True"
    /\ cur # None /\ cur.found = "raise" /\ cur.insert = "False"
    /\ n_redacted = 2 /\ n_inserted = 1

\* C8: insert_new_text draws with the properties' font when it is a built-in
\* alias, and then find_font is not invoked; otherwise with the family name
\* when find_font returned a file and load_font succeeded; otherwise with
\* 'helv'.
C8_FontPolicy ==
    cur # None /\ cur.insert # "skipped" =>
        IF cur.font \in builtin_fonts
        THEN ~cur.called /\ cur.use_font = cur.font
        ELSE /\ cur.called
             /\ IF cur.found = "path" /\ cur.loaded = "ok"
                THEN cur.use_font = cur.font
                ELSE cur.use_font = helv

\* a step of edit_text
edit_step == pc # "idle" \/ pc' # "idle" \/ n_edits' # n_edits

\* n runs of SEP and text, one after the other
RECURSIVE inserted_runs(_, _)
inserted_runs(n, text) ==
    IF n = 0 THEN <<>> ELSE <<SEP>> \o text \o inserted_runs(n - 1, text)

\* out is src with, on page pno alone, glyphs blanked and n runs of text
\* appended
only_replacements(src, out, pno, text, n) ==
    /\ Len(out.pages) = Len(src.pages)
    /\ \A i \in 1..Len(src.pages) : i # pno => out.pages[i] = src.pages[i]
    /\ LET before == src.pages[pno].text
           after == out.pages[pno].text
       IN  /\ Len(after) = Len(before) + Len(inserted_runs(n, text))
           /\ \A j \in 1..Len(before) : after[j] \in {before[j], SEP}
           /\ str_slice(after, Len(before), Len(after)) = inserted_runs(n, text)

C10_step ==
    /\ edit_step =>
          /\ UNCHANGED editor_vars
          /\ DOMAIN disk' \subseteq DOMAIN disk \cup {output_path(filename)}
          /\ \A p \in DOMAIN disk :
                p # output_path(filename) \/ p = filename =>
                    p \in DOMAIN disk' /\ disk'[p] = disk[p]
          /\ save_target' \in {NoneStr, output_path(filename)}
          /\ pc = "idle" /\ pc' # "idle" => doc' = disk[filename]
          /\ pc = "save" /\ ret' = "True" =>
                /\ disk'[output_path(filename)] = doc
                /\ only_replacements(disk[filename], doc, args.page_number + 1,
                                     args.new_text, n_inserted)
    /\ ~edit_step =>
          /\ current_pdf' # current_pdf =>
                filename' \in DOMAIN disk /\ current_pdf' = disk[filename'] /\ disk' = disk
          /\ disk' # disk =>
                /\ current_pdf # None
                /\ UNCHANGED editor_vars
                /\ \E p \in DOMAIN disk' :
                      disk' \in {put(disk, p, current_pdf), put(disk, p, Truncated)}

\* C10: every step of edit_text leaves current_pdf, filename, page_number
\* and the verbose flags as they were and changes no file but the derived
\* output path; each call starts from the source file as it is on disk and
\* its saved output is that source with the replacements of this call alone;
\* save_pdf writes current_pdf, which only open_pdf sets, from the file it
\* reads.
C10_EditLeavesEditorAndSource == [][C10_step]_vars

\* a second successful edit on the same editor, after which the output holds
\* one replacement and the source and current_pdf are as opened
C10_Witness ==
    /\ finished /\ ret = "True" /\ n_edits = 2
    /\ n_redacted = 1 /\ n_inserted = 1
    /\ save_target \in DOMAIN disk
    /\ disk[save_target] # Truncated
    /\ Len(disk[save_target].pages[args.page_number + 1].text)
          = Len(SamplePage) + 1 + Len(args.new_text)
    /\ filename \in DOMAIN disk /\ disk[filename] = current_pdf

\* "name" with "_edited" put before its extension; the extension starts at
\* the last dot that has a character other than a dot before it
with_suffix_before_extension(name) ==
    LET dots == {i \in 2..Len(name) :
                    name[i] = "." /\ \E j \in 1..(i - 1) : name[j] # "."}
        k == IF dots = {} THEN Len(name) + 1
             ELSE CHOOSE i \in dots : \A j \in dots : j <= i
    IN  SubSeq(name, 1, k - 1) \o <<"_", "e", "d", "i", "t", "e", "d">>
        \o SubSeq(name, k, Len(name))

\* C1: the path edit_text gives to doc.save differs from the path the
\* document was opened from and is that path with '_edited' put immediately
\* before its extension.
C1_OutputBesideSource ==
    save_target # NoneStr =>
        /\ save_target # doc_name
        /\ save_target = with_suffix_before_extension(doc_name)

\* the three fields of a span, each defaulted when the span lacks it; span
\* None is no span
props_from(span) ==
    [tag |-> "props",
     font |-> IF span # None /\ "font" \in DOMAIN span THEN span.font ELSE helv,
     size |-> IF span # None /\ "size" \in DOMAIN span THEN span.size ELSE 11,
     color |-> IF span # None /\ "color" \in DOMAIN span THEN span.color
               ELSE <<0, 0, 0>>]

\* the first span of the first line of the first block of a lookup's answer,
\* None when the answer has none
first_span_present(info) ==
    IF info = Raise THEN None
    ELSE IF info.tag # "dict" THEN None
    ELSE IF "blocks" \notin DOMAIN info.d THEN None
    ELSE IF info.d.blocks = <<>> THEN None
    ELSE IF "lines" \notin DOMAIN info.d.blocks[1] THEN None
    ELSE IF info.d.blocks[1].lines = <<>> THEN None
    ELSE IF "spans" \notin DOMAIN info.d.blocks[1].lines[1] THEN None
    ELSE IF info.d.blocks[1].lines[1].spans = <<>> THEN None
    ELSE info.d.blocks[1].lines[1].spans[1]

\* C4 as stated: whatever the lookup does, get_text_properties returns a
\* value with font, size and color, each from the first span when present
\* there and else its default.
C4_NeverNull ==
    last_info # None =>
        properties # None /\ properties = props_from(first_span_present(last_info))

\* C4 amended: get_text_properties never raises; it returns None exactly
\* when the lookup page.get_text raises, and otherwise a value with font,
\* size and color, each from the first span of the first line of the first
\* block when present there and else its default ('helv', 11, black); so the
\* properties that reach the insertion are fully populated.
C4_NullOnlyWhenLookupRaises ==
    /\ last_info # None => (properties = None <=> last_info = Raise)
    /\ last_info # None /\ last_info # Raise =>
          properties = props_from(first_span_present(last_info))
    /\ pc \in {"redact", "insert"} =>
          properties # None /\ DOMAIN properties = {"tag", "font", "size", "color"}

\* a lookup whose first span of two has a font and a color and no size
C4_Witness ==
    /\ pc = "redact"
    /\ first_span_present(last_info) # None
    /\ DOMAIN first_span_present(last_info) = {"text", "font", "color"}
    /\ Len(last_info.d.blocks[1].lines[1].spans) = 2
    /\ properties = [tag |-> "props", font |-> Ro, size |-> default_size, color |-> red]

\* C5: find_font never raises to its caller.
C5_FindFontNeverRaises ==
    ff # None => ff.res # Raise

\* the text of the edited page in the file the run saved
saved_page_text == disk[save_target].pages[args.page_number + 1].text

\* the run saved after every match was redacted and had the new text inserted
all_replaced ==
    /\ finished /\ ret = "True"
    /\ n_redacted = Len(text_instances)
    /\ n_inserted = Len(text_instances)

====
